---- MODULE Spec2Model ----
(***************************************************************************)
(* Model of licenser.py: the PathSet container (add / prune / resolve /    *)
(* validate / resolve_globs) and the generator PathSet.traverse, driven by *)
(* main() and consumed by add_license().                                   *)
(*                                                                         *)
(* Strings are sequences of one-character strings, so that the substring   *)
(* test of prune(), the '*' and '.' tests of add() and the normalisation   *)
(* done by pathlib are computed and not assumed.                           *)
(***************************************************************************)
EXTENDS Integers, Sequences, FiniteSets, TLC

VARIABLES pc, args, heap, src_ref, prune_ref, stack, yielded, listed,
          written, licensed

vars == <<pc, args, heap, src_ref, prune_ref, stack, yielded, listed,
          written, licensed>>

----------------------------------------------------------------------------
(* Bounds *)

\* largest number of source specifiers given on the command line
MaxSources == 2
\* largest number of prune specifiers given on the command line
MaxPrunes == 1
\* depth at which the interpreter raises RecursionError (scaled down)
RecursionLimit == 4

----------------------------------------------------------------------------
(* Characters and strings *)

Sep == "/"
Dot == "."
Star == "*"
\* the reference $A to the environment variable A, kept as one token
VarA == "$A"

Last(s) == s[Len(s)]

\* str(a) in str(b)
IsSubstr(p, s) ==
    \E i \in 0..(Len(s) - Len(p)) : SubSeq(s, i + 1, i + Len(p)) = p

HasChar(c, s) == \E i \in 1..Len(s) : s[i] = c

\* s.split('/')
RECURSIVE Split(_)
Split(s) ==
    IF s = <<>> THEN << <<>> >>
    ELSE LET r == Split(Tail(s))
         IN  IF Head(s) = Sep THEN << <<>> >> \o r
             ELSE << <<Head(s)>> \o Head(r) >> \o Tail(r)

\* '/'.join(comps)
RECURSIVE Join(_)
Join(comps) ==
    IF comps = <<>> THEN <<>>
    ELSE IF Len(comps) = 1 THEN Head(comps)
    ELSE Head(comps) \o <<Sep>> \o Join(Tail(comps))

IsAbs(s) == s # <<>> /\ Head(s) = Sep

----------------------------------------------------------------------------
(* The environment: variables, working directory, filesystem *)

\* value of the environment variable A
EnvA == <<"a">>

\* the current working directory
Cwd == <<"/", "w">>

\* the components of the current working directory
CwdParts == SelectSeq(Split(Cwd), LAMBDA c : c # <<>>)

\* The filesystem: existing paths and their kind.  "/s" is a socket.
FS ==
    ( <<"/">>                                      :> "dir"  ) @@
    ( <<"/", "s">>                                 :> "other") @@
    ( <<"/", "w">>                                 :> "dir"  ) @@
    ( <<"/", "w", "/", "m", ".", "p">>             :> "file" ) @@
    ( <<"/", "w", "/", "a">>                       :> "dir"  ) @@
    ( <<"/", "w", "/", "a", "/", "f", ".", "p">>   :> "file" ) @@
    ( <<"/", "w", "/", "a", "/", "g", ".", "t">>   :> "file" ) @@
    ( <<"/", "w", "/", "a", "/", "b">>             :> "dir"  ) @@
    ( <<"/", "w", "/", "a", "/", "b", "/", "h", ".", "p">> :> "file") @@
    ( <<"/", "w", "/", "a", "b">>                  :> "dir"  ) @@
    ( <<"/", "w", "/", "a", "b", "/", "k", ".", "p">> :> "file")

\* os.path.expandvars(source)
RECURSIVE ExpandVars(_)
ExpandVars(s) ==
    IF s = <<>> THEN <<>>
    ELSE IF Head(s) = VarA THEN EnvA \o ExpandVars(Tail(s))
    ELSE <<Head(s)>> \o ExpandVars(Tail(s))

\* str(pathlib.Path(source)): empty and "." components are dropped
PathOf(s) ==
    LET parts == SelectSeq(Split(s), LAMBDA c : c # <<>> /\ c # <<Dot>>)
    IN  IF IsAbs(s) THEN <<Sep>> \o Join(parts)
        ELSE IF parts = <<>> THEN <<Dot>>
        ELSE Join(parts)

\* path / name
JoinPath(p, name) == IF p = <<Sep>> THEN p \o name ELSE p \o <<Sep>> \o name

\* removes the ".." components of a sequence of components
RECURSIVE Collapse(_, _)
Collapse(done, todo) ==
    IF todo = <<>> THEN done
    ELSE IF Head(todo) = <<Dot, Dot>>
         THEN Collapse(IF done = <<>> THEN done
                       ELSE SubSeq(done, 1, Len(done) - 1), Tail(todo))
    ELSE Collapse(Append(done, Head(todo)), Tail(todo))

\* str(pathlib.Path(path).expanduser().resolve()); there are no symlinks
ResolvePath(p) ==
    LET parts == SelectSeq(Split(p), LAMBDA c : c # <<>> /\ c # <<Dot>>)
        from  == IF IsAbs(p) THEN <<>> ELSE CwdParts
    IN  <<Sep>> \o Join(Collapse(<<>>, from \o parts))

\* what the path names: "dir", "file", "other", or "none" if nothing
Kind(p) ==
    LET r == ResolvePath(p)
    IN  IF r \in DOMAIN FS THEN FS[r] ELSE "none"

Exists(p) == Kind(p) # "none"
IsDir(p) == Kind(p) = "dir"
IsFile(p) == Kind(p) = "file"

\* path.parent and path.name of an absolute path
Parent(p) ==
    LET parts == SelectSeq(Split(p), LAMBDA c : c # <<>>)
    IN  IF parts = <<>> THEN p
        ELSE <<Sep>> \o Join(SubSeq(parts, 1, Len(parts) - 1))

Name(p) ==
    LET parts == SelectSeq(Split(p), LAMBDA c : c # <<>>)
    IN  IF parts = <<>> THEN <<>> ELSE Last(parts)

\* the directory each existing path lies in
ParentOf == [p \in DOMAIN FS |-> Parent(p)]

\* path.iterdir()
IterDir(d) == {p \in DOMAIN FS : p # d /\ ParentOf[p] = d}

\* fnmatch of one pattern component against one name ('*' is the wildcard)
RECURSIVE Match(_, _)
Match(pat, name) ==
    IF pat = <<>> THEN name = <<>>
    ELSE IF Head(pat) = Star
         THEN Match(Tail(pat), name)
              \/ (name # <<>> /\ Match(pat, Tail(name)))
    ELSE name # <<>> /\ Head(name) = Head(pat)
         /\ Match(Tail(pat), Tail(name))

\* the selectors of pathlib's glob: a wildcard component selects the
\* matching entries of a directory, ".." selects the parent, a literal
\* component selects the entry of that name
RECURSIVE Select(_, _)
Select(bases, comps) ==
    IF comps = <<>> THEN bases
    ELSE LET c == Head(comps)
             next ==
               IF HasChar(Star, c)
               THEN UNION { {JoinPath(b, Name(e)) :
                               e \in {x \in IterDir(ResolvePath(b)) :
                                         Match(c, Name(x))}} :
                            b \in {x \in bases : IsDir(x)} }
               ELSE {JoinPath(b, c) : b \in {x \in bases : IsDir(x)}}
         IN  Select({x \in next : Exists(x)}, Tail(comps))

\* path.glob(glob)
Glob(path, glob) ==
    Select({path}, SelectSeq(Split(glob), LAMBDA c : c # <<>> /\ c # <<Dot>>))

----------------------------------------------------------------------------
(* PathSet *)

EmptyPathSet == [dirs |-> {}, files |-> {}, globs |-> {}]

\* add() without the test for a trailing separator
IsDirSourceNoSep(source) ==
    LET kind == Kind(PathOf(source))
    IN  kind = "dir" \/ (kind # "file" /\ ~HasChar(Dot, source))

\* the test of add() that sends a source without '*' to dirs
IsDirSource(source) ==
    LET kind == Kind(PathOf(source))
    IN  kind = "dir"
        \/ (kind # "file"
            /\ (~HasChar(Dot, source) \/ Last(source) = Sep))

\* "glob", "dir" or "file": the set add() puts the source into
Classify(source) ==
    IF HasChar(Star, source) THEN "glob"
    ELSE IF IsDirSource(source) THEN "dir"
    ELSE "file"

\* PathSet.add(sources)
Add(ps, sources) ==
    LET exp == {ExpandVars(s) : s \in sources}
        class == [x \in exp |-> Classify(x)]
    IN  [dirs  |-> ps.dirs \cup
                   {PathOf(s) : s \in {x \in exp : class[x] = "dir"}},
         files |-> ps.files \cup
                   {PathOf(s) : s \in {x \in exp : class[x] = "file"}},
         globs |-> ps.globs \cup {x \in exp : class[x] = "glob"}]

\* PathSet(sources)
NewPathSet(sources) == Add(EmptyPathSet, sources)

\* prune() matching directories by whole path components
PruneFromDirsPrefix(self, prune_ps) ==
    {sp \in self.dirs : \E pp \in prune_ps.dirs :
        sp = pp \/ (Len(sp) > Len(pp)
                    /\ SubSeq(sp, 1, Len(pp) + 1) = pp \o <<Sep>>)}

\* the three sets prune() collects
PruneFromDirs(self, prune_ps) ==
    {sp \in self.dirs : \E pp \in prune_ps.dirs : IsSubstr(pp, sp)}

\* prune() without the directory test on files
PruneFromFilesExact(self, prune_ps) ==
    {sp \in self.files : \E pp \in prune_ps.files : pp = sp}

PruneFromFiles(self, prune_ps) ==
    {sp \in self.files : \E pp \in prune_ps.dirs : IsSubstr(pp, sp)}
    \cup {sp \in self.files : \E pp \in prune_ps.files : pp = sp}

PruneFromGlobs(self, prune_ps) ==
    {sg \in self.globs : \E pg \in prune_ps.globs : pg = sg}

\* self.prune(prune_ps): the value of self afterwards
Prune(self, prune_ps) ==
    [dirs  |-> self.dirs \ PruneFromDirs(self, prune_ps),
     files |-> self.files \ PruneFromFiles(self, prune_ps),
     globs |-> self.globs \ PruneFromGlobs(self, prune_ps)]

\* PathSet.resolve_paths(paths)
ResolvePaths(paths) == {ResolvePath(p) : p \in paths}

\* self.resolve()
Resolve(ps) ==
    [dirs  |-> ResolvePaths(ps.dirs),
     files |-> ResolvePaths(ps.files),
     globs |-> ps.globs]

\* validate_paths() without the test of the kind of object
ValidPathsExistOnly(paths) == \A p \in paths : Exists(p)

\* PathSet.validate_paths(paths) returns normally
ValidPaths(paths) ==
    \A p \in paths : Exists(p) /\ (IsDir(p) \/ IsFile(p))

\* self.validate() returns normally
Valid(ps) == ValidPaths(ps.dirs) /\ ValidPaths(ps.files)

\* PathSet.resolve_globs(path, globs)
ResolveGlobs(path, globs) ==
    ResolvePaths(UNION {Glob(path, g) : g \in globs})

\* _traverse building s without the globs of source_ps
ChildPathSetNoSeed(source_path, globs) ==
    Add(Add(EmptyPathSet, {p \in IterDir(source_path) : IsDir(p)}),
        ResolveGlobs(source_path, globs))

\* the PathSet s that _traverse builds for one directory of source_ps
ChildPathSet(source_path, globs) ==
    LET s1 == NewPathSet(globs)
        s2 == Add(s1, {p \in IterDir(source_path) : IsDir(p)})
    IN  Add(s2, ResolveGlobs(source_path, globs))

\* prune_ps.add(PathSet.resolve_globs(source_path, prune_ps.globs))
ExtendPrune(prune_ps, source_path) ==
    Add(prune_ps, ResolveGlobs(source_path, prune_ps.globs))

\* the two default-fill steps of traverse()
DefaultFill(ps) ==
    LET ps1 == IF ps.files = {} /\ ps.dirs = {}
               THEN Add(ps, {<<Dot>>}) ELSE ps
    IN  IF ps1.files = {} /\ ps1.globs = {}
        THEN Add(ps1, {<<Star>>}) ELSE ps1

----------------------------------------------------------------------------
(* Objects *)

\* the caller's source PathSet and prune PathSet
Self == 1
PruneArg == 2

\* traverse() working on the caller's object
NoCopy(id) == id

\* copy.deepcopy(obj): the copy is a new object
DeepCopy(id) == id + 2

\* the PathSet s built for the frame of the given depth
ChildRef(depth) == 4 + depth

Put(h, id, v) == (id :> v) @@ h

Drop(h, id) == [i \in (DOMAIN h) \ {id} |-> h[i]]

----------------------------------------------------------------------------
(* Inputs *)

\* source specifiers of the command line
SourceSpecs ==
    { <<"a">>,
      <<VarA, "/", "b", "/">>,
      <<"a", "/", "g", ".", "t">>,
      <<"n", "x">>,
      <<"/", "s">>,
      <<"*", ".", "p">>,
      <<"*", "/", "*">>,
      <<"*", "/", ".", ".">> }

\* prune specifiers of the command line
PruneSpecs ==
    { <<"a">>,
      <<VarA, "/", "b">>,
      <<"a", "/", "f", ".", "p">>,
      <<".", "/", "n", "x">>,
      <<"n", ".", "x", "/">>,
      <<"*", ".", "t">>,
      <<"*", ".", "p">> }

UpTo(S, n) == {T \in SUBSET S : Cardinality(T) <= n}

----------------------------------------------------------------------------
(* The program *)

Count(f) == IF f \in DOMAIN yielded THEN yielded[f] ELSE 0

Top == stack[Len(stack)]

Pop == SubSeq(stack, 1, Len(stack) - 1)

Frame(ref, depth, parent) ==
    [ref |-> ref, depth |-> depth, phase |-> "enter",
     toYield |-> {}, todo |-> {}, parent |-> parent]

Init ==
    /\ pc = "start"
    /\ args = [sources |-> {}, prune |-> {}, recurse |-> FALSE]
    /\ heap = (Self :> EmptyPathSet) @@ (PruneArg :> EmptyPathSet)
    /\ src_ref = Self
    /\ prune_ref = PruneArg
    /\ stack = <<>>
    /\ yielded = [f \in {} |-> 0]
    /\ listed = {}
    /\ written = {}
    /\ licensed = { <<"/", "w", "/", "m", ".", "p">> }

\* main(): the two PathSets are built and traverse() is called, which
\* creates the generator without running it
Construct ==
    /\ pc = "start"
    /\ \E S \in UpTo(SourceSpecs, MaxSources), P \in UpTo(PruneSpecs, MaxPrunes),
          r \in BOOLEAN :
          /\ args' = [sources |-> S, prune |-> P, recurse |-> r]
          /\ heap' = (Self :> NewPathSet(S)) @@ (PruneArg :> NewPathSet(P))
    /\ pc' = "called"
    /\ UNCHANGED <<src_ref, prune_ref, stack, yielded, listed, written,
                   licensed>>

\* first next() of the generator: copy, default-fill, resolve, validate,
\* resolve the prune set, enter _traverse at depth 0
Start ==
    /\ pc = "called"
    /\ LET sref == DeepCopy(Self)
           pref == DeepCopy(PruneArg)
           h1 == Put(heap, sref, heap[Self])
           h2 == Put(h1, pref, h1[PruneArg])
           h3 == Put(h2, sref, Resolve(DefaultFill(h2[sref])))
       IN  /\ src_ref' = sref
           /\ prune_ref' = pref
           /\ IF Valid(h3[sref])
              THEN /\ heap' = Put(h3, pref, Resolve(h3[pref]))
                   /\ stack' = << Frame(sref, 0, <<>>) >>
                   /\ pc' = "run"
              ELSE /\ heap' = h3
                   /\ stack' = <<>>
                   /\ pc' = "invalid"
    /\ UNCHANGED <<args, yielded, listed, written, licensed>>

\* source_ps.prune(prune_ps) on entry of _traverse
PruneStep ==
    /\ pc = "run" /\ stack # <<>> /\ Top.phase = "enter"
    /\ LET ps == Prune(heap[Top.ref], heap[prune_ref])
       IN  /\ heap' = Put(heap, Top.ref, ps)
           /\ stack' = [stack EXCEPT ![Len(stack)] =
                          [@ EXCEPT !.phase = "yield",
                                    !.toYield = ps.files,
                                    !.todo = ps.dirs]]
    /\ UNCHANGED <<pc, args, src_ref, prune_ref, yielded, listed, written,
                   licensed>>

\* yield from source_ps.files, one file; add_license() prepends the
\* license to the file unless the file contains it
Yield ==
    /\ pc = "run" /\ stack # <<>> /\ Top.phase = "yield"
    /\ \E f \in Top.toYield :
          /\ stack' = [stack EXCEPT ![Len(stack)].toYield = @ \ {f}]
          /\ yielded' = Put(yielded, f, Count(f) + 1)
          /\ IF f \in licensed
             THEN UNCHANGED <<written, licensed>>
             ELSE /\ written' = written \cup {f}
                  /\ licensed' = licensed \cup {f}
    /\ UNCHANGED <<pc, args, heap, src_ref, prune_ref, listed>>

\* the generator of the top frame is exhausted
Leave ==
    /\ stack' = Pop
    /\ heap' = IF Top.depth > 0 THEN Drop(heap, Top.ref) ELSE heap
    /\ pc' = IF Len(stack) = 1 THEN "done" ELSE pc
    /\ UNCHANGED <<args, src_ref, prune_ref, yielded, listed, written,
                   licensed>>

\* if not recurse and depth > 0: return
StopDescend ==
    /\ pc = "run" /\ stack # <<>> /\ Top.phase = "yield"
    /\ Top.toYield = {}
    /\ ~args.recurse /\ Top.depth > 0
    /\ Leave

\* one iteration of the loop over source_ps.dirs
Descend ==
    /\ pc = "run" /\ stack # <<>> /\ Top.phase = "yield"
    /\ Top.toYield = {}
    /\ ~(~args.recurse /\ Top.depth > 0)
    /\ \E source_path \in Top.todo :
          LET s3 == ChildPathSet(source_path, heap[Top.ref].globs)
              pr == ExtendPrune(heap[prune_ref], source_path)
              ref == ChildRef(Top.depth + 1)
          IN  IF ~IsDir(source_path) \/ Top.depth + 1 >= RecursionLimit
              THEN \* NotADirectoryError of iterdir(), or RecursionError
                   /\ pc' = "crashed"
                   /\ stack' = <<>>
                   /\ UNCHANGED <<heap, listed>>
              ELSE /\ heap' = Put(Put(heap, prune_ref, pr), ref, s3)
                   /\ stack' = Append(
                        [stack EXCEPT ![Len(stack)].todo = @ \ {source_path}],
                        Frame(ref, Top.depth + 1, source_path))
                   /\ listed' = listed \cup
                        {[dir |-> source_path, depth |-> Top.depth]}
                   /\ pc' = pc
    /\ UNCHANGED <<args, src_ref, prune_ref, yielded, written, licensed>>

\* the loop over source_ps.dirs has ended
Return ==
    /\ pc = "run" /\ stack # <<>> /\ Top.phase = "yield"
    /\ Top.toYield = {}
    /\ ~(~args.recurse /\ Top.depth > 0)
    /\ Top.todo = {}
    /\ Leave

Next ==
    \/ Construct
    \/ Start
    \/ PruneStep
    \/ Yield
    \/ StopDescend
    \/ Descend
    \/ Return

Spec == Init /\ [][Next]_vars

----------------------------------------------------------------------------
(* Direct use of PathSet.prune: two PathSets are built, optionally        *)
(* resolved, and one is pruned by the other.                              *)

\* specifiers of the pruned PathSet
ApiSelfSpecs ==
    { <<"a">>,
      <<"a", "b">>,
      <<"a", "/", "b">>,
      <<"a", "/", "f", ".", "p">>,
      <<"a", "b", "/", "k", ".", "p">>,
      <<"n", ".", "x", "/">>,
      <<"n", ".", "x">>,
      <<"*">>,
      <<"*", ".", "p">> }

\* specifiers of the pruning PathSet
ApiPruneSpecs == PruneSpecs \cup { <<"n", ".", "x">>, <<"*">> }

ApiConstruct ==
    /\ pc = "api"
    /\ \E S \in UpTo(ApiSelfSpecs, MaxSources),
          P \in UpTo(ApiPruneSpecs, MaxPrunes) :
          /\ args' = [sources |-> S, prune |-> P, recurse |-> FALSE]
          /\ heap' = (Self :> NewPathSet(S)) @@ (PruneArg :> NewPathSet(P))
    /\ pc' = "built"
    /\ UNCHANGED <<src_ref, prune_ref, stack, yielded, listed, written,
                   licensed>>

\* self.resolve() and other.resolve()
ApiResolve ==
    /\ pc = "built"
    /\ heap' = (Self :> Resolve(heap[Self]))
               @@ (PruneArg :> Resolve(heap[PruneArg]))
    /\ heap' # heap
    /\ UNCHANGED <<pc, args, src_ref, prune_ref, stack, yielded, listed,
                   written, licensed>>

\* self.prune(other)
ApiPrune ==
    /\ pc = "built"
    /\ heap' = Put(heap, Self, Prune(heap[Self], heap[PruneArg]))
    /\ pc' = "pruned"
    /\ UNCHANGED <<args, src_ref, prune_ref, stack, yielded, listed,
                   written, licensed>>

PruneInit ==
    /\ pc = "api"
    /\ args = [sources |-> {}, prune |-> {}, recurse |-> FALSE]
    /\ heap = (Self :> EmptyPathSet) @@ (PruneArg :> EmptyPathSet)
    /\ src_ref = Self
    /\ prune_ref = PruneArg
    /\ stack = <<>>
    /\ yielded = [f \in {} |-> 0]
    /\ listed = {}
    /\ written = {}
    /\ licensed = {}

PruneNext ==
    \/ ApiConstruct
    \/ ApiResolve
    \/ ApiPrune

PruneSpec == PruneInit /\ [][PruneNext]_vars

----------------------------------------------------------------------------
(* Vocabulary of the properties *)

\* the caller's source set after default-fill and resolution
InitialSources == Resolve(DefaultFill(heap[Self]))

\* the paths the prune globs have matched in the directories listed so far
PruneGlobMatches ==
    UNION {ResolveGlobs(d, heap[PruneArg].globs) : d \in {r.dir : r \in listed}}

\* the strings that exclude every path containing them: the prune
\* directories of the caller and the directories matched by a prune glob
PruneDirStrings ==
    ResolvePaths(heap[PruneArg].dirs) \cup {m \in PruneGlobMatches : IsDir(m)}

\* the paths excluded as such: the prune files of the caller and the paths
\* matched by a prune glob
PruneFileStrings ==
    ResolvePaths(heap[PruneArg].files) \cup PruneGlobMatches

\* the files of the set that the prune set leaves
Unpruned(files) ==
    LET pds == PruneDirStrings
        pfs == PruneFileStrings
    IN  {f \in files : f \notin pfs /\ \A pd \in pds : ~IsSubstr(pd, f)}

\* the source globs that take part in the walk
EffectiveGlobs == InitialSources.globs \ heap[PruneArg].globs

\* the regular files that a source glob which is no prune glob matches
\* relative to a directory listed so far
MatchedFiles ==
    {x \in UNION {ResolveGlobs(d, {g}) :
                    d \in {r.dir : r \in listed}, g \in EffectiveGlobs} :
        IsFile(x)}

\* d lies strictly below p
IsStrictSubdir(d, p) ==
    /\ Len(d) > Len(p) + 1
    /\ SubSeq(d, 1, Len(p) + 1) = p \o <<Sep>>

----------------------------------------------------------------------------
(* Properties *)

\* C1: with recurse=True, also when the sources overlap, no file is yielded
\* more than once and every file of a listed directory that a source glob
\* selects and that is not pruned is yielded.
C1_ExactlyOnce ==
    (pc = "done" /\ args.recurse) =>
        /\ \A f \in DOMAIN yielded : yielded[f] = 1
        /\ \A f \in Unpruned(MatchedFiles) : Count(f) = 1

\* C2: with recurse=False and a source set that names no glob, every file
\* directly in an initially-specified directory and every initially-specified
\* file is yielded unless pruned, and no other file is yielded.
C2_DepthZero ==
    (pc = "done" /\ ~args.recurse /\ heap[Self].globs = {}) =>
        /\ \A f \in Unpruned({x \in UNION {IterDir(d) :
                                      d \in InitialSources.dirs} : IsFile(x)}) :
              Count(f) >= 1
        /\ \A f \in Unpruned(InitialSources.files) : Count(f) >= 1
        /\ \A f \in DOMAIN yielded :
              f \in InitialSources.files \/ Parent(f) \in InitialSources.dirs

\* C3: no yielded file contains the resolved string of a prune directory of
\* the caller or equals a resolved prune file of the caller, and the files a
\* frame is about to yield have been pruned against the accumulated prune set.
C3_YieldedNotPruned ==
    /\ \A f \in DOMAIN yielded :
          /\ \A pd \in ResolvePaths(heap[PruneArg].dirs) : ~IsSubstr(pd, f)
          /\ f \notin ResolvePaths(heap[PruneArg].files)
    /\ (stack # <<>> /\ Top.phase = "yield") =>
          \A f \in Top.toYield :
             /\ \A pd \in heap[prune_ref].dirs : ~IsSubstr(pd, f)
             /\ f \notin heap[prune_ref].files

C3_Witness ==
    /\ pc = "done" /\ args.recurse
    /\ <<VarA, "/", "b">> \in args.prune
    /\ \E r \in listed : r.depth = 1 /\ r.dir = <<"/", "w", "/", "a">>
    /\ Count(<<"/", "w", "/", "a", "/", "f", ".", "p">>) = 1
    /\ Count(<<"/", "w", "/", "a", "/", "b", "/", "h", ".", "p">>) = 0

\* C4: self.prune(other) keeps exactly the dirs that contain no prune
\* directory string, the files that contain no prune directory string and
\* equal no prune file, the globs that equal no prune glob, and leaves other
\* unchanged.
C4_PruneExact ==
    [][(pc = "built" /\ pc' = "pruned") =>
         LET self == heap[Self]
             other == heap[PruneArg]
         IN  /\ heap'[Self].dirs =
                  {d \in self.dirs : \A pd \in other.dirs : ~IsSubstr(pd, d)}
             /\ heap'[Self].files =
                  {f \in self.files :
                      /\ \A pd \in other.dirs : ~IsSubstr(pd, f)
                      /\ \A pf \in other.files : pf # f}
             /\ heap'[Self].globs =
                  {g \in self.globs : \A pg \in other.globs : pg # g}
             /\ heap'[PruneArg] = other]_vars

\* the over-match: prune dir "a" has removed the source dir "ab" and the
\* source file "ab/k.p", and the prune file "n.x" has left the dir "n.x"
C4_Witness ==
    /\ pc = "pruned"
    /\ args.sources = { <<"a", "b">>, <<"a", "b", "/", "k", ".", "p">> }
    /\ args.prune = { <<"a">> }
    /\ heap[Self] = EmptyPathSet
    /\ heap[PruneArg].dirs # {}

\* C5: once traverse has been called, no step changes the caller's source
\* PathSet or the caller's prune PathSet.
C5_CallerUnchanged ==
    [][pc # "start" =>
         heap'[Self] = heap[Self] /\ heap'[PruneArg] = heap[PruneArg]]_vars

C5_Witness ==
    /\ pc = "done"
    /\ DOMAIN yielded # {}
    /\ heap[src_ref] # heap[Self]
    /\ heap[prune_ref] # heap[PruneArg]
    /\ heap[prune_ref].files # ResolvePaths(heap[PruneArg].files)

\* a source specifier without '*' that is neither an existing regular file
\* nor an existing directory
BadSource ==
    \E s \in args.sources :
       /\ ~HasChar(Star, ExpandVars(s))
       /\ ~IsDir(PathOf(ExpandVars(s)))
       /\ ~IsFile(PathOf(ExpandVars(s)))

\* C6: traverse fails exactly when a non-glob source specifier is missing or
\* is neither file nor directory, and it fails before any file is yielded or
\* written.
C6_ValidateFirst ==
    pc \notin {"start", "called"} =>
        /\ BadSource <=> pc = "invalid"
        /\ pc = "invalid" => (DOMAIN yielded = {} /\ written = {})

C6_Witness ==
    /\ pc = "invalid"
    /\ args.sources = { <<"/", "s">>, <<"*", ".", "p">> }
    /\ <<".", "/", "n", "x">> \in args.prune

\* the last component of the path has an extension
HasExtension(e) ==
    LET n == Name(PathOf(e))
    IN  \E i \in 2..(Len(n) - 1) : n[i] = Dot

EndsInSep(e) == e # <<>> /\ Last(e) = Sep

\* the rule as stated: a nonexistent path without extension is a directory
StatedClass(e) ==
    IF HasChar(Star, e) THEN "glob"
    ELSE IF IsDir(PathOf(e)) THEN "dir"
    ELSE IF ~Exists(PathOf(e)) /\ (~HasExtension(e) \/ EndsInSep(e))
         THEN "dir"
    ELSE "file"

\* the rule with "contains no '.'" in place of "has no extension", applied
\* to every path that is not an existing regular file
PeriodClass(e) ==
    IF HasChar(Star, e) THEN "glob"
    ELSE IF IsDir(PathOf(e)) THEN "dir"
    ELSE IF ~IsFile(PathOf(e)) /\ (~HasChar(Dot, e) \/ EndsInSep(e))
         THEN "dir"
    ELSE "file"

\* ps holds the specifiers as the rule Class sorts them
BuiltBy(ps, specs, Class(_)) ==
    LET exp == {ExpandVars(x) : x \in specs}
    IN  /\ ps.globs = {e \in exp : Class(e) = "glob"}
        /\ ps.dirs = {PathOf(e) : e \in {x \in exp : Class(x) = "dir"}}
        /\ ps.files = {PathOf(e) : e \in {x \in exp : Class(x) = "file"}}

\* C7 as stated: a nonexistent specifier without extension or with a
\* trailing separator is a directory, every other non-glob, non-directory
\* specifier is a file.
C7_Stated ==
    pc = "called" =>
        /\ BuiltBy(heap[Self], args.sources, StatedClass)
        /\ BuiltBy(heap[PruneArg], args.prune, StatedClass)

\* C7 amended: a specifier that is not an existing regular file and that
\* contains no '.' or ends in a separator is a directory.
C7_PeriodRule ==
    pc = "called" =>
        /\ BuiltBy(heap[Self], args.sources, PeriodClass)
        /\ BuiltBy(heap[PruneArg], args.prune, PeriodClass)

C7_Witness ==
    /\ pc = "called"
    /\ args.prune = { <<".", "/", "n", "x">> }
    /\ heap[PruneArg].files = { <<"n", "x">> }
    /\ heap[PruneArg].dirs = {}
    /\ <<"/", "s">> \in args.sources
    /\ heap[Self].dirs = { <<"/", "s">> }

\* C8: with recurse=True, for every listed directory and every source glob
\* that is no prune glob, every regular file the glob matches relative to the
\* directory is yielded unless it is pruned.
C8_GlobEveryLevel ==
    (args.recurse /\ pc \in {"done", "crashed"}) =>
        \A f \in Unpruned(MatchedFiles) : Count(f) >= 1

C8_Witness ==
    /\ pc = "done" /\ args.recurse
    /\ <<"*", ".", "p">> \in args.sources
    /\ \E r \in listed : r.depth = 2 /\ r.dir = <<"/", "w", "/", "a", "/", "b">>
    /\ Count(<<"/", "w", "/", "a", "/", "b", "/", "h", ".", "p">>) = 1
    /\ Count(<<"/", "w", "/", "a", "/", "g", ".", "t">>) = 0

\* C9: no yielded file is matched by a prune glob resolved against its
\* directory once the traversal has listed that directory.
C9_PruneGlobEveryLevel ==
    \A f \in DOMAIN yielded :
       (\E r \in listed : r.dir = Parent(f)) =>
           f \notin ResolveGlobs(Parent(f), heap[PruneArg].globs)

\* C10: the traversal does not fail by unbounded recursion, the frame at
\* position i has depth i-1, every descent enters a directory that lies
\* strictly below the directory the descending frame was made for, and with
\* recurse=False no directory is listed below depth 0.
C10_Terminates ==
    /\ pc # "crashed"
    /\ \A i \in 1..Len(stack) : stack[i].depth = i - 1
    /\ \A i \in 3..Len(stack) :
          IsStrictSubdir(stack[i].parent, stack[i - 1].parent)
    /\ ~args.recurse => \A r \in listed : r.depth = 0

====
